---- MODULE Spec2Model ----
(***************************************************************************)
(* A model of class Graph of src/main.py: a directed weighted graph kept   *)
(* as a set of labels and an adjacency map, with add_vertex, add_edge,     *)
(* get_weight, the dfs and bfs generators, dsp and dsp_all.                *)
(*                                                                         *)
(* Python values are modelled by records: a string is a sequence of code   *)
(* points, a number is finite (an integer here) or one of the float        *)
(* values inf, -inf and nan, and anything else has its own tag.            *)
(***************************************************************************)
EXTENDS Integers, Sequences, FiniteSets, TLC

VARIABLES vertices, adj, ret, gen, hist

vars == <<vertices, adj, ret, gen, hist>>

\* The largest number of entries the adjacency map may hold in a run.
MaxEdges == 3

(***************************************************************************)
(* Python values                                                           *)
(***************************************************************************)
PyStr(s) == [t |-> "str", s |-> s, n |-> 0]
PyInt(n) == [t |-> "int", s |-> <<>>, n |-> n]
PyNone == [t |-> "none", s |-> <<>>, n |-> 0]
PyInf == [t |-> "float", s |-> <<>>, n |-> 1]
PyNegInf == [t |-> "float", s |-> <<>>, n |-> -1]
PyNaN == [t |-> "float", s |-> <<>>, n |-> 0]

\* Code points of the characters the labels are made of.
Space == 32
Digit0 == 48
LetterA == 65
LetterB == 66
LetterC == 67

RECURSIVE Digits(_)
Digits(n) == IF n < 10 THEN <<Digit0 + n>>
             ELSE Append(Digits(n \div 10), Digit0 + (n % 10))

\* str(value): a string is itself, a non-negative integer its decimal
\* digits, None is "None", and the floats are "inf", "-inf" and "nan".
Str(v) == IF v.t = "str" THEN v.s
          ELSE IF v.t = "int" THEN Digits(v.n)
          ELSE IF v.t = "none" THEN <<78, 111, 110, 101>>
          ELSE IF v.n = 1 THEN <<105, 110, 102>>
          ELSE IF v.n = -1 THEN <<45, 105, 110, 102>>
          ELSE <<110, 97, 110>>

\* label.strip() of a label of spaces and other characters.
RECURSIVE LStrip(_)
LStrip(s) == IF s # <<>> /\ Head(s) = Space THEN LStrip(Tail(s)) ELSE s

RECURSIVE RStrip(_)
RStrip(s) == IF s # <<>> /\ s[Len(s)] = Space
             THEN RStrip(SubSeq(s, 1, Len(s) - 1)) ELSE s

Strip(s) == RStrip(LStrip(s))

\* isinstance(label, (str, int, float))
IsLabelType(v) == v.t \in {"str", "int", "float"}

\* isinstance(w, (int, float))
IsNumber(v) == v.t \in {"int", "float"}

\* math.inf, and the arithmetic and comparisons of Python numbers.
IsNaN(x) == x.t = "float" /\ x.n = 0
IsInf(x) == x.t = "float" /\ x.n = 1
IsNegInf(x) == x.t = "float" /\ x.n = -1
IsFinite(x) == x.t = "int"

NumAdd(a, b) ==
    IF IsNaN(a) \/ IsNaN(b) THEN PyNaN
    ELSE IF IsFinite(a) /\ IsFinite(b) THEN PyInt(a.n + b.n)
    ELSE IF IsFinite(a) THEN b
    ELSE IF IsFinite(b) THEN a
    ELSE IF a = b THEN a
    ELSE PyNaN

NumLess(a, b) ==
    IF IsNaN(a) \/ IsNaN(b) THEN FALSE
    ELSE IF IsFinite(a) /\ IsFinite(b) THEN a.n < b.n
    ELSE IF a = b THEN FALSE
    ELSE IsNegInf(a) \/ IsInf(b)

\* a == b of two numbers.
NumEq(a, b) == ~IsNaN(a) /\ ~IsNaN(b) /\ a = b

\* The order of Python strings: by code point, a proper prefix first.
RECURSIVE StrLess(_, _)
StrLess(a, b) ==
    IF b = <<>> THEN FALSE
    ELSE IF a = <<>> THEN TRUE
    ELSE IF Head(a) # Head(b) THEN Head(a) < Head(b)
    ELSE StrLess(Tail(a), Tail(b))

(***************************************************************************)
(* The adjacency map: adj[v] is a dict, kept as the sequence of its        *)
(* <<key, value>> items in insertion order.                                *)
(***************************************************************************)
Keys(d) == {d[i][1] : i \in 1..Len(d)}

DictGet(d, k, default) ==
    IF k \in Keys(d)
    THEN LET i == CHOOSE j \in 1..Len(d) : d[j][1] = k IN d[i][2]
    ELSE default

\* d[k] = x: an existing key keeps its place, a new key goes last.
DictSet(d, k, x) ==
    IF k \in Keys(d)
    THEN [i \in 1..Len(d) |-> IF d[i][1] = k THEN <<k, x>> ELSE d[i]]
    ELSE Append(d, <<k, x>>)

\* sorted(d): the keys in ascending order.
RECURSIVE SortSet(_)
SortSet(S) ==
    IF S = {} THEN <<>>
    ELSE LET m == CHOOSE x \in S : \A y \in S \ {x} : StrLess(x, y)
         IN <<m>> \o SortSet(S \ {m})

\* The keys in descending order.
SortedDescending(d) == LET up == SortSet(Keys(d))
                       IN [i \in 1..Len(up) |-> up[Len(up) + 1 - i]]

Sorted(d) == SortSet(Keys(d))

NumEdges(ad) ==
    LET RECURSIVE Sum(_)
        Sum(S) == IF S = {} THEN 0
                  ELSE LET v == CHOOSE x \in S : TRUE
                       IN Len(ad[v]) + Sum(S \ {v})
    IN Sum(DOMAIN ad)

(***************************************************************************)
(* The result of the last call.                                            *)
(***************************************************************************)
NoPath == <<>>
NoPaths == [v \in {} |-> <<>>]

Result(op, a, b, err, val, path, paths) ==
    [op |-> op, a |-> a, b |-> b, err |-> err, val |-> val,
     path |-> path, paths |-> paths]

Returned(op, a, b, val) == Result(op, a, b, "none", val, NoPath, NoPaths)
Raised(op, a, b, err) == Result(op, a, b, err, PyNone, NoPath, NoPaths)

NoGen == [kind |-> "none", pc |-> "none", start |-> PyNone, visited |-> {},
          queue |-> <<>>, cur |-> <<>>, stack |-> <<>>, out |-> <<>>]

(***************************************************************************)
(* add_vertex, add_edge, get_weight                                        *)
(***************************************************************************)
\* add_vertex registering the label before it finds the label blank.
add_vertex_register_first(vs, ad, label) ==
    IF ~IsLabelType(label)
    THEN [vertices |-> vs, adj |-> ad, err |-> "InvalidArgument"]
    ELSE IF Str(label) \in vs
    THEN [vertices |-> vs, adj |-> ad, err |-> "DuplicateVertex"]
    ELSE [vertices |-> vs \cup {Str(label)},
          adj |-> [x \in (DOMAIN ad) \cup {Str(label)} |->
                     IF x = Str(label) THEN <<>> ELSE ad[x]],
          err |-> IF Strip(Str(label)) = <<>> THEN "InvalidArgument" ELSE "none"]

\* The graph after add_vertex(label), and the error it raises if any.
add_vertex(vs, ad, label) ==
    IF ~IsLabelType(label)
    THEN [vertices |-> vs, adj |-> ad, err |-> "InvalidArgument"]
    ELSE IF Str(label) \in vs
    THEN [vertices |-> vs, adj |-> ad, err |-> "DuplicateVertex"]
    ELSE IF Strip(Str(label)) = <<>>
    THEN [vertices |-> vs, adj |-> ad, err |-> "InvalidArgument"]
    ELSE [vertices |-> vs \cup {Str(label)},
          adj |-> [x \in (DOMAIN ad) \cup {Str(label)} |->
                     IF x = Str(label) THEN <<>> ELSE ad[x]],
          err |-> "none"]

\* add_edge looking up the source only.
add_edge_unchecked_dest(vs, ad, src, dest, w) ==
    IF Str(src) \notin vs
    THEN [vertices |-> vs, adj |-> ad, err |-> "VertexNotFound"]
    ELSE IF ~IsNumber(w)
    THEN [vertices |-> vs, adj |-> ad, err |-> "InvalidArgument"]
    ELSE [vertices |-> vs,
          adj |-> [ad EXCEPT ![Str(src)] = DictSet(@, Str(dest), w)],
          err |-> "none"]

\* add_edge storing the weight in both directions.
add_edge_both_ways(vs, ad, src, dest, w) ==
    IF Str(src) \notin vs \/ Str(dest) \notin vs
    THEN [vertices |-> vs, adj |-> ad, err |-> "VertexNotFound"]
    ELSE IF ~IsNumber(w)
    THEN [vertices |-> vs, adj |-> ad, err |-> "InvalidArgument"]
    ELSE [vertices |-> vs,
          adj |-> [x \in DOMAIN ad |->
                     IF x = Str(src) /\ x = Str(dest) THEN DictSet(ad[x], x, w)
                     ELSE IF x = Str(src) THEN DictSet(ad[x], Str(dest), w)
                     ELSE IF x = Str(dest) THEN DictSet(ad[x], Str(src), w)
                     ELSE ad[x]],
          err |-> "none"]

\* The graph after add_edge(src, dest, w), and the error it raises if any.
add_edge(vs, ad, src, dest, w) ==
    IF Str(src) \notin vs \/ Str(dest) \notin vs
    THEN [vertices |-> vs, adj |-> ad, err |-> "VertexNotFound"]
    ELSE IF ~IsNumber(w)
    THEN [vertices |-> vs, adj |-> ad, err |-> "InvalidArgument"]
    ELSE [vertices |-> vs,
          adj |-> [ad EXCEPT ![Str(src)] = DictSet(@, Str(dest), w)],
          err |-> "none"]

get_weight(vs, ad, src, dest) ==
    IF Str(src) \notin vs \/ Str(dest) \notin vs
    THEN Raised("get_weight", PyNone, PyNone, "VertexNotFound")
    ELSE Returned("get_weight", src, dest, DictGet(ad[Str(src)], Str(dest), PyInf))

(***************************************************************************)
(* dsp and dsp_all.  The loop state is the dist and prev maps and the      *)
(* heap pq, kept as the sequence of its (distance, label) entries.         *)
(***************************************************************************)
\* value in self._vertices, for an argument that is not coerced.
InVertices(vs, v) == v.t = "str" /\ v.s \in vs

\* (d1, v1) < (d2, v2) of two heap entries.
EntryLess(x, y) ==
    \/ NumLess(x[1], y[1])
    \/ NumEq(x[1], y[1]) /\ StrLess(x[2], y[2])

\* heapq.heappop(pq): the index of the smallest entry.
HeapMin(pq) == CHOOSE i \in 1..Len(pq) : \A j \in 1..Len(pq) : ~EntryLess(pq[j], pq[i])

Remove(q, i) == SubSeq(q, 1, i - 1) \o SubSeq(q, i + 1, Len(q))

DspInit(vs, src) ==
    [dist |-> [v \in vs |-> IF v = src THEN PyInt(0) ELSE PyInf],
     prev |-> [v \in vs |-> PyNone],
     pq |-> << <<PyInt(0), src>> >>]

\* The for loop over self._adj[v].items(), from item i on.
RECURSIVE Relax(_, _, _, _, _)
Relax(items, i, d, v, st) ==
    IF i > Len(items) THEN st
    ELSE LET neighbor == items[i][1]
             weight == items[i][2]
             new_dist == NumAdd(d, weight)
         IN IF NumLess(new_dist, st.dist[neighbor])
            THEN Relax(items, i + 1, d, v,
                       [dist |-> [st.dist EXCEPT ![neighbor] = new_dist],
                        prev |-> [st.prev EXCEPT ![neighbor] = PyStr(v)],
                        pq |-> Append(st.pq, <<new_dist, neighbor>>)])
            ELSE Relax(items, i + 1, d, v, st)

\* The while loop of dsp stopping as soon as dest has a tentative distance.
RECURSIVE DspLoopStopOnReach(_, _, _)
DspLoopStopOnReach(ad, dest, st) ==
    IF st.pq = <<>> \/ ~NumEq(st.dist[dest], PyInf) THEN st
    ELSE LET i == HeapMin(st.pq)
             d == st.pq[i][1]
             v == st.pq[i][2]
             popped == [st EXCEPT !.pq = Remove(st.pq, i)]
         IN IF NumLess(st.dist[v], d) THEN DspLoopStopOnReach(ad, dest, popped)
            ELSE DspLoopStopOnReach(ad, dest, Relax(ad[v], 1, d, v, popped))

\* The while loop of dsp, which stops when it pops dest.
RECURSIVE DspLoop(_, _, _)
DspLoop(ad, dest, st) ==
    IF st.pq = <<>> THEN st
    ELSE LET i == HeapMin(st.pq)
             d == st.pq[i][1]
             v == st.pq[i][2]
             popped == [st EXCEPT !.pq = Remove(st.pq, i)]
         IN IF NumLess(st.dist[v], d) THEN DspLoop(ad, dest, popped)
            ELSE IF v = dest THEN popped
            ELSE DspLoop(ad, dest, Relax(ad[v], 1, d, v, popped))

\* The while loop of dsp_all, which runs until the heap is empty.
RECURSIVE DspAllLoop(_, _)
DspAllLoop(ad, st) ==
    IF st.pq = <<>> THEN st
    ELSE LET i == HeapMin(st.pq)
             d == st.pq[i][1]
             v == st.pq[i][2]
             popped == [st EXCEPT !.pq = Remove(st.pq, i)]
         IN IF NumLess(st.dist[v], d) THEN DspAllLoop(ad, popped)
            ELSE DspAllLoop(ad, Relax(ad[v], 1, d, v, popped))

Reverse(q) == [i \in 1..Len(q) |-> q[Len(q) + 1 - i]]

\* The labels appended while following prev from curr until None.
RECURSIVE Backward(_, _)
Backward(prev, curr) ==
    IF curr.t = "none" THEN <<>>
    ELSE <<curr.s>> \o Backward(prev, prev[curr.s])

BuildPath(prev, v) == Reverse(Backward(prev, PyStr(v)))

dsp(vs, ad, src, dest) ==
    IF ~InVertices(vs, src) \/ ~InVertices(vs, dest)
    THEN Raised("dsp", PyNone, PyNone, "VertexNotFound")
    ELSE LET st == DspLoop(ad, dest.s, DspInit(vs, src.s))
         IN IF NumEq(st.dist[dest.s], PyInf)
            THEN Result("dsp", src, dest, "none", PyInf, <<>>, NoPaths)
            ELSE Result("dsp", src, dest, "none", st.dist[dest.s],
                        BuildPath(st.prev, dest.s), NoPaths)

dsp_all(vs, ad, src) ==
    IF ~InVertices(vs, src)
    THEN Raised("dsp_all", PyNone, PyNone, "VertexNotFound")
    ELSE LET st == DspAllLoop(ad, DspInit(vs, src.s))
         IN Result("dsp_all", src, PyNone, "none", PyNone, NoPath,
                   [v \in vs |-> IF NumEq(st.dist[v], PyInf) THEN <<>>
                                  ELSE BuildPath(st.prev, v)])

(***************************************************************************)
(* bfs: a generator function.  Calling it runs none of its body; the body  *)
(* runs from one yield to the next on each next().  gen.out collects what  *)
(* the consumer has been given.                                            *)
(***************************************************************************)
\* The for loop over sorted(self._adj[v]), from neighbor i on.
RECURSIVE BfsEnqueue(_, _, _)
BfsEnqueue(nbrs, i, g) ==
    IF i > Len(nbrs) THEN g
    ELSE IF nbrs[i] \notin g.visited
    THEN BfsEnqueue(nbrs, i + 1, [g EXCEPT !.visited = @ \cup {nbrs[i]},
                                          !.queue = Append(@, nbrs[i])])
    ELSE BfsEnqueue(nbrs, i + 1, g)

\* The head of the while loop taking the newest entry of the queue.
BfsAdvanceLifo(g) ==
    IF g.queue = <<>>
    THEN [gen |-> [g EXCEPT !.pc = "done"],
          ret |-> Raised("next", PyNone, PyNone, "StopIteration")]
    ELSE LET v == g.queue[Len(g.queue)] IN
         [gen |-> [g EXCEPT !.pc = "yielded", !.cur = v,
                            !.queue = SubSeq(@, 1, Len(@) - 1),
                            !.out = Append(@, v)],
          ret |-> Returned("next", PyNone, PyNone, PyStr(v))]

\* The head of the while loop: leave when the queue is empty, else
\* popleft and yield.
BfsAdvance(g) ==
    IF g.queue = <<>>
    THEN [gen |-> [g EXCEPT !.pc = "done"],
          ret |-> Raised("next", PyNone, PyNone, "StopIteration")]
    ELSE LET v == Head(g.queue) IN
         [gen |-> [g EXCEPT !.pc = "yielded", !.cur = v, !.queue = Tail(@),
                            !.out = Append(@, v)],
          ret |-> Returned("next", PyNone, PyNone, PyStr(v))]

\* bfs(start): the generator object, nothing of the body run.
bfs(start) == [NoGen EXCEPT !.kind = "bfs", !.pc = "created", !.start = start]

\* next() on a bfs generator.
bfs_next(vs, ad, g) ==
    IF g.pc = "created"
    THEN IF ~InVertices(vs, g.start)
         THEN [gen |-> [g EXCEPT !.pc = "done"],
               ret |-> Raised("next", PyNone, PyNone, "VertexNotFound")]
         ELSE BfsAdvance([g EXCEPT !.visited = {g.start.s},
                                   !.queue = <<g.start.s>>])
    ELSE IF g.pc = "yielded"
    THEN BfsAdvance(BfsEnqueue(Sorted(ad[g.cur]), 1, g))
    ELSE [gen |-> g, ret |-> Raised("next", PyNone, PyNone, "StopIteration")]

(***************************************************************************)
(* dfs: a function that checks its argument and returns the generator of   *)
(* the nested _dfs.  gen.stack holds the frames of the nested generators,  *)
(* the innermost last: the vertex, where the frame stands, and the rest of *)
(* its sorted neighbor list.                                               *)
(***************************************************************************)
Frame(v) == [v |-> v, pc |-> "created", nbrs |-> <<>>]

Pop(stack) == SubSeq(stack, 1, Len(stack) - 1)

SetTop(stack, f) == [stack EXCEPT ![Len(stack)] = f]

\* dfs(start): raises for an absent start, else hands back _dfs(start).
dfs(vs, start) ==
    IF ~InVertices(vs, start)
    THEN [gen |-> NoGen, ret |-> Raised("dfs", start, PyNone, "VertexNotFound")]
    ELSE [gen |-> [NoGen EXCEPT !.kind = "dfs", !.pc = "created", !.start = start,
                                !.stack = <<Frame(start.s)>>],
          ret |-> Returned("dfs", start, PyNone, PyNone)]

\* The innermost frame runs until a frame yields or the outermost returns.
RECURSIVE DfsRun(_, _)
DfsRun(ad, g) ==
    IF g.stack = <<>>
    THEN [gen |-> [g EXCEPT !.pc = "done"],
          ret |-> Raised("next", PyNone, PyNone, "StopIteration")]
    ELSE LET f == g.stack[Len(g.stack)] IN
         IF f.pc = "created"
         THEN [gen |-> [g EXCEPT !.pc = "yielded",
                                 !.visited = @ \cup {f.v},
                                 !.stack = SetTop(@, [f EXCEPT !.pc = "yielded"]),
                                 !.out = Append(@, f.v)],
               ret |-> Returned("next", PyNone, PyNone, PyStr(f.v))]
         ELSE IF f.pc = "yielded"
         THEN DfsRun(ad, [g EXCEPT !.stack =
                            SetTop(@, [f EXCEPT !.pc = "loop", !.nbrs = Sorted(ad[f.v])])])
         ELSE IF f.nbrs = <<>>
         THEN DfsRun(ad, [g EXCEPT !.stack = Pop(@)])
         ELSE IF Head(f.nbrs) \notin g.visited
         THEN DfsRun(ad, [g EXCEPT !.stack =
                            Append(SetTop(@, [f EXCEPT !.nbrs = Tail(@)]),
                                   Frame(Head(f.nbrs)))])
         ELSE DfsRun(ad, [g EXCEPT !.stack = SetTop(@, [f EXCEPT !.nbrs = Tail(@)])])

\* next() on a dfs generator.
dfs_next(ad, g) ==
    IF g.pc = "done"
    THEN [gen |-> g, ret |-> Raised("next", PyNone, PyNone, "StopIteration")]
    ELSE DfsRun(ad, g)

(***************************************************************************)
(* The calls a program makes.  hist records, for each ordered pair of      *)
(* labels, the weight of the last add_edge on it that returned.  ret keeps  *)
(* the arguments of a query that returned, the weight passed to add_edge,  *)
(* and the value or the error the call ended with.  Every error is a       *)
(* ValueError in the code; err names the check that raised it: a label of  *)
(* a wrong type, a blank label or a weight that is no number is            *)
(* InvalidArgument, a label already present is DuplicateVertex, a label    *)
(* not present is VertexNotFound.                                          *)
(***************************************************************************)
LabelArgs == {PyStr(<<LetterA>>), PyInt(1), PyStr(<<Space>>), PyNone}

WeightArgs == {PyInt(0), PyInt(1), PyInf, PyNaN, PyNone}

Init ==
    /\ vertices = {}
    /\ adj = [v \in {} |-> <<>>]
    /\ ret = Raised("init", PyNone, PyNone, "none")
    /\ gen = NoGen
    /\ hist = [p \in {} |-> PyNone]

AddVertex(label) ==
    /\ gen = NoGen
    /\ LET r == add_vertex(vertices, adj, label) IN
         /\ vertices' = r.vertices
         /\ adj' = r.adj
         /\ ret' = Result("add_vertex", PyNone, PyNone, r.err, PyNone, NoPath, NoPaths)
    /\ UNCHANGED <<gen, hist>>

AddEdge(src, dest, w) ==
    /\ gen = NoGen
    /\ LET r == add_edge(vertices, adj, src, dest, w) IN
         /\ NumEdges(r.adj) <= MaxEdges
         /\ vertices' = r.vertices
         /\ adj' = r.adj
         /\ ret' = Result("add_edge", PyNone, PyNone, r.err, w, NoPath, NoPaths)
         /\ hist' = IF r.err = "none"
                    THEN [p \in (DOMAIN hist) \cup {<<Str(src), Str(dest)>>} |->
                            IF p = <<Str(src), Str(dest)>> THEN w ELSE hist[p]]
                    ELSE hist
    /\ UNCHANGED gen

GetWeight(src, dest) ==
    /\ gen = NoGen
    /\ ret' = get_weight(vertices, adj, src, dest)
    /\ UNCHANGED <<vertices, adj, gen, hist>>

Next ==
    \/ \E label \in LabelArgs : AddVertex(label)
    \/ \E src \in LabelArgs, dest \in LabelArgs, w \in WeightArgs : AddEdge(src, dest, w)
    \/ \E src \in LabelArgs, dest \in LabelArgs : GetWeight(src, dest)

Spec == Init /\ [][Next]_vars

\* The calls of a program that builds a graph with weights 0, 1 and inf and
\* asks for shortest paths.
PathLabelArgs == {PyStr(<<LetterA>>), PyStr(<<LetterB>>), PyStr(<<LetterC>>)}

PathWeightArgs == {PyInt(0), PyInt(1), PyInf}

Dsp(src, dest) ==
    /\ gen = NoGen
    /\ ret' = dsp(vertices, adj, src, dest)
    /\ UNCHANGED <<vertices, adj, gen, hist>>

DspAll(src) ==
    /\ gen = NoGen
    /\ ret' = dsp_all(vertices, adj, src)
    /\ UNCHANGED <<vertices, adj, gen, hist>>

NextPath ==
    \/ \E label \in PathLabelArgs : AddVertex(label)
    \/ \E src \in PathLabelArgs, dest \in PathLabelArgs, w \in PathWeightArgs :
          AddEdge(src, dest, w)
    \/ \E src \in PathLabelArgs, dest \in PathLabelArgs : Dsp(src, dest)
    \/ \E src \in PathLabelArgs : DspAll(src)

SpecPath == Init /\ [][NextPath]_vars

\* The calls of a program that builds a graph on the labels "10", "9", "A"
\* and "B" and walks it with one generator at a time.
TravLabelArgs == {PyInt(10), PyInt(9), PyStr(<<LetterA>>), PyStr(<<LetterB>>)}

TravStartArgs == {PyStr(Digits(10)), PyStr(Digits(9)), PyStr(<<LetterA>>),
                  PyStr(<<LetterB>>), PyInt(9)}

TravWeightArgs == {PyInt(1)}

BfsCall(start) ==
    /\ gen = NoGen
    /\ gen' = bfs(start)
    /\ ret' = Returned("bfs", start, PyNone, PyNone)
    /\ UNCHANGED <<vertices, adj, hist>>

DfsCall(start) ==
    /\ gen = NoGen
    /\ gen' = dfs(vertices, start).gen
    /\ ret' = dfs(vertices, start).ret
    /\ UNCHANGED <<vertices, adj, hist>>

GenNext ==
    /\ gen # NoGen
    /\ LET r == IF gen.kind = "bfs" THEN bfs_next(vertices, adj, gen)
                 ELSE dfs_next(adj, gen) IN
         /\ gen' = r.gen
         /\ ret' = r.ret
    /\ UNCHANGED <<vertices, adj, hist>>

\* The caller lets go of the generator, consumed or not.
GenDrop ==
    /\ gen # NoGen
    /\ gen' = NoGen
    /\ ret' = Raised("del", PyNone, PyNone, "none")
    /\ UNCHANGED <<vertices, adj, hist>>

NextTrav ==
    \/ \E label \in TravLabelArgs : AddVertex(label)
    \/ \E src \in TravLabelArgs, dest \in TravLabelArgs, w \in TravWeightArgs :
          AddEdge(src, dest, w)
    \/ \E start \in TravStartArgs : BfsCall(start)
    \/ \E start \in TravStartArgs : DfsCall(start)
    \/ GenNext
    \/ GenDrop

SpecTrav == Init /\ [][NextTrav]_vars

(***************************************************************************)
(* Claims on add_vertex, add_edge and get_weight, checked under Spec.      *)
(***************************************************************************)
HasEdge(a, b) == a \in DOMAIN adj /\ b \in Keys(adj[a])

\* C1: an add_vertex or add_edge call that raises leaves the vertex set and
\* the whole adjacency map as they were before the call.
C1_FailedAddLeavesGraph ==
    [][(ret'.op \in {"add_vertex", "add_edge"} /\ ret'.err # "none")
        => (vertices' = vertices /\ adj' = adj)]_vars

\* A blank label was refused while the graph already held an edge.
C1_Witness ==
    /\ ret.op = "add_vertex"
    /\ ret.err = "InvalidArgument"
    /\ NumEdges(adj) > 0

\* C2: after any sequence of add_vertex and add_edge calls the keys of the
\* adjacency map are the vertex set, and both ends of every stored edge are
\* in the vertex set.
C2_AdjacencyMatchesVertices ==
    /\ DOMAIN adj = vertices
    /\ \A v \in DOMAIN adj : Keys(adj[v]) \subseteq vertices

\* An add_edge naming a missing endpoint failed on a graph with two edges.
C2_Witness ==
    /\ ret.op = "add_edge"
    /\ ret.err = "VertexNotFound"
    /\ NumEdges(adj) >= 2

\* C3: get_weight(a, b) on existing vertices returns the weight of the last
\* add_edge(a, b, w) that returned, or +infinity if there was none; an
\* add_edge on the reverse pair does not count.
C3_GetWeightIsLastSet ==
    (ret.op = "get_weight" /\ ret.err = "none") =>
        ret.val = IF <<Str(ret.a), Str(ret.b)>> \in DOMAIN hist
                  THEN hist[<<Str(ret.a), Str(ret.b)>>]
                  ELSE PyInf

\* get_weight(a, b) returned +infinity although the edge (b, a) is stored
\* with a finite weight.
C3_Witness ==
    /\ ret.op = "get_weight"
    /\ ret.err = "none"
    /\ Str(ret.a) # Str(ret.b)
    /\ <<Str(ret.a), Str(ret.b)>> \notin DOMAIN hist
    /\ HasEdge(Str(ret.b), Str(ret.a))
    /\ IsFinite(DictGet(adj[Str(ret.b)], Str(ret.a), PyInf))
    /\ ret.val = PyInf

\* C10: add_edge with both endpoints present raises InvalidArgument whenever
\* the weight is not a finite number.
C10_NonFiniteWeightRefused ==
    (ret.op = "add_edge" /\ ret.err # "VertexNotFound"
       /\ ~(IsNumber(ret.val) /\ IsFinite(ret.val)))
    => ret.err = "InvalidArgument"

\* C10, its consequence: every weight stored in the adjacency map is finite.
C10_StoredWeightsFinite ==
    \A v \in DOMAIN adj : \A i \in 1..Len(adj[v]) : IsFinite(adj[v][i][2])

(***************************************************************************)
(* Claims on dsp and dsp_all, checked under SpecPath.  The reference is    *)
(* the enumeration of every walk of at most |vertices| edges.              *)
(***************************************************************************)
Weight(a, b) == DictGet(adj[a], b, PyInf)

IsWalk(p) == /\ Len(p) >= 1
             /\ \A i \in 1..Len(p) : p[i] \in vertices
             /\ \A i \in 1..(Len(p) - 1) : HasEdge(p[i], p[i + 1])

\* The sum of the weights along p, added from the source on.
RECURSIVE WalkWeight(_)
WalkWeight(p) ==
    IF Len(p) <= 1 THEN PyInt(0)
    ELSE NumAdd(WalkWeight(SubSeq(p, 1, Len(p) - 1)), Weight(p[Len(p) - 1], p[Len(p)]))

Walks(a, b) ==
    {p \in UNION {[1..n -> vertices] : n \in 1..(Cardinality(vertices) + 1)} :
        IsWalk(p) /\ p[1] = a /\ p[Len(p)] = b}

Reachable(a, b) == Walks(a, b) # {}

NonNegativeWeights ==
    \A v \in DOMAIN adj : \A i \in 1..Len(adj[v]) : ~NumLess(adj[v][i][2], PyInt(0))

FiniteWeights ==
    \A v \in DOMAIN adj : \A i \in 1..Len(adj[v]) : IsFinite(adj[v][i][2])

DspReturned == ret.op = "dsp" /\ ret.err = "none"

ShortestPathReturned ==
    /\ ret.path # <<>>
    /\ ret.path[1] = ret.a.s
    /\ ret.path[Len(ret.path)] = ret.b.s
    /\ IsWalk(ret.path)
    /\ WalkWeight(ret.path) = ret.val
    /\ \A p \in Walks(ret.a.s, ret.b.s) : ~NumLess(WalkWeight(p), ret.val)

\* C4: on a graph with non-negative weights, for dest reachable from src,
\* dsp(src, dest) returns a path from src to dest along stored edges whose
\* weights add up to the returned distance, and no path from src to dest
\* weighs less.
C4_DspShortestPath ==
    (DspReturned /\ NonNegativeWeights /\ Reachable(ret.a.s, ret.b.s))
    => ShortestPathReturned

\* C4 on the graphs whose weights are all finite.
C4_DspShortestPathFinite ==
    (DspReturned /\ NonNegativeWeights /\ FiniteWeights /\ Reachable(ret.a.s, ret.b.s))
    => ShortestPathReturned

\* C5: on a graph with non-negative weights dsp(src, dest) returns
\* (+infinity, []) exactly when no directed path leads from src to dest.
C5_DspInfinityIffUnreachable ==
    (DspReturned /\ NonNegativeWeights)
    => ((ret.val = PyInf /\ ret.path = <<>>) <=> ~Reachable(ret.a.s, ret.b.s))

\* C5 on the graphs whose weights are all finite.
C5_DspInfinityIffUnreachableFinite ==
    (DspReturned /\ NonNegativeWeights /\ FiniteWeights)
    => ((ret.val = PyInf /\ ret.path = <<>>) <=> ~Reachable(ret.a.s, ret.b.s))

\* C6: on a graph with non-negative weights dsp_all(src)[v] is, for every
\* vertex v, the path that dsp(src, v) returns.
C6_DspAllAgreesWithDsp ==
    (ret.op = "dsp_all" /\ ret.err = "none" /\ NonNegativeWeights)
    => /\ DOMAIN ret.paths = vertices
       /\ \A v \in vertices :
            ret.paths[v] = dsp(vertices, adj, ret.a, PyStr(v)).path

\* dsp_all returned the direct edge to a vertex that a two-edge path
\* reaches at the same weight, and no path at all to another vertex.
C6_Witness ==
    /\ ret.op = "dsp_all"
    /\ ret.err = "none"
    /\ \E v \in vertices, u \in vertices :
          /\ Cardinality({ret.a.s, u, v}) = 3
          /\ ret.paths[v] = <<ret.a.s, v>>
          /\ IsWalk(<<ret.a.s, u, v>>)
          /\ WalkWeight(<<ret.a.s, u, v>>) = WalkWeight(<<ret.a.s, v>>)
          /\ IsFinite(WalkWeight(<<ret.a.s, v>>))

(***************************************************************************)
(* Claims on bfs and dfs, checked under SpecTrav.  No call changes the     *)
(* graph while a generator is held, so adj is the graph it walks.          *)
(***************************************************************************)
\* The vertices that walks of at most k edges lead to from a.
RECURSIVE Within(_, _)
Within(a, k) ==
    IF k = 0 THEN {a}
    ELSE LET near == Within(a, k - 1)
         IN near \cup {v \in vertices : \E u \in near : HasEdge(u, v)}

ReachableFrom(a) == Within(a, Cardinality(vertices))

\* The least number of edges of a walk from a to b.
EdgeDist(a, b) ==
    CHOOSE k \in 0..Cardinality(vertices) :
        /\ b \in Within(a, k)
        /\ \A j \in 0..(k - 1) : b \notin Within(a, j)

Range(q) == {q[i] : i \in 1..Len(q)}

NoRepeat(q) == \A i \in 1..Len(q) : \A j \in 1..Len(q) : q[i] = q[j] => i = j

IsPrefix(q, r) == Len(q) <= Len(r) /\ q = SubSeq(r, 1, Len(q))

BfsWalking == gen.kind = "bfs" /\ InVertices(vertices, gen.start)

\* C7: bfs(start), consumed to its end, yields each vertex reachable from
\* start once and no other vertex, every vertex k edges from start before
\* every vertex k + 1 edges from it, and it ends after at most |vertices|
\* labels: a generator that has yielded that many ends on the next call.
C7_BfsLevelOrder ==
    BfsWalking =>
       /\ Len(gen.out) <= Cardinality(vertices)
       /\ NoRepeat(gen.out)
       /\ Len(gen.out) = Cardinality(vertices)
            => bfs_next(vertices, adj, gen).gen.pc = "done"
       /\ gen.pc = "done" =>
            /\ Range(gen.out) = ReachableFrom(gen.start.s)
            /\ \A i \in 1..Len(gen.out) : \A j \in 1..Len(gen.out) :
                  EdgeDist(gen.start.s, gen.out[j]) = EdgeDist(gen.start.s, gen.out[i]) + 1
                  => i < j

\* A finished bfs that yielded four vertices, the last two edges away,
\* where the start has two neighbors.
C7_Witness ==
    /\ BfsWalking
    /\ gen.pc = "done"
    /\ Len(gen.out) = 4
    /\ EdgeDist(gen.start.s, gen.out[3]) = 1
    /\ EdgeDist(gen.start.s, gen.out[4]) = 2

\* The depth-first pre-order from v: v, then again and again the whole
\* pre-order from the smallest neighbor of v not visited by then.
RECURSIVE PreOrder(_, _), Explore(_, _, _)
PreOrder(v, visited) == Explore(v, visited \cup {v}, <<v>>)
Explore(v, visited, order) ==
    LET unvisited == Keys(adj[v]) \ visited IN
    IF unvisited = {} THEN [order |-> order, visited |-> visited]
    ELSE LET n == CHOOSE x \in unvisited : \A y \in unvisited \ {x} : StrLess(x, y)
             r == PreOrder(n, visited)
         IN Explore(v, r.visited, order \o r.order)

\* C8: dfs(start), consumed to its end, yields each vertex reachable from
\* start once and no other vertex, in the depth-first pre-order that enters
\* the still unvisited neighbors in ascending label order, each explored
\* completely before the next; consumed in part, it has yielded the start
\* of that order.
C8_DfsPreOrder ==
    gen.kind = "dfs" =>
       LET order == PreOrder(gen.start.s, {}).order IN
       /\ IsPrefix(gen.out, order)
       /\ gen.pc = "done" =>
            /\ gen.out = order
            /\ NoRepeat(gen.out)
            /\ Range(gen.out) = ReachableFrom(gen.start.s)

\* A finished dfs that yielded a vertex two edges from the start before a
\* neighbor of the start.
C8_Witness ==
    /\ gen.kind = "dfs"
    /\ gen.pc = "done"
    /\ Len(gen.out) = 4
    /\ EdgeDist(gen.start.s, gen.out[3]) = 2
    /\ EdgeDist(gen.start.s, gen.out[4]) = 1

\* C9: bfs(start) and dfs(start) with a start that is not in the vertex
\* set raise VertexNotFound from the call itself, handing back no generator.
C9_AbsentStartRaisesAtCall ==
    (ret.op \in {"bfs", "dfs"} /\ ~InVertices(vertices, ret.a))
    => (ret.err = "VertexNotFound" /\ gen = NoGen)

\* C9 for dfs alone.
C9_DfsAbsentStartRaisesAtCall ==
    (ret.op = "dfs" /\ ~InVertices(vertices, ret.a))
    => (ret.err = "VertexNotFound" /\ gen = NoGen)

\* C9, what bfs does: the error is raised by some call, the first next().
C9_BfsAbsentStartRaisesAtNext ==
    (gen.kind = "bfs" /\ ~InVertices(vertices, gen.start) /\ gen.pc = "done")
    => (ret.op = "next" /\ ret.err \in {"VertexNotFound", "StopIteration"}
        /\ gen.out = <<>>)

====
